---- MODULE Spec2Model ----
(***************************************************************************)
(* Model of sbclassifier/classifiers/slurping.py: the URL-slurping          *)
(* classifier (SlurpingClassifier) and its link extractor                   *)
(* (SlurpingURLStripper).                                                   *)
(*                                                                         *)
(* Python strings are sequences of one-character strings, so that the       *)
(* string operations of the source (split, regular-expression match,        *)
(* startswith, iteration over a str) are computed and not assumed.          *)
(* A Python value that is returned by slurp is a record                     *)
(*   [ty |-> "list", items |-> <<tok, ...>>, exc |-> ""]   a list of str    *)
(*   [ty |-> "str",  items |-> <<c, ...>>,   exc |-> ""]   a single str     *)
(*   [ty |-> "raise", items |-> <<>>, exc |-> name]        an exception     *)
(* None is the empty tuple (falsy, like None).                              *)
(***************************************************************************)
EXTENDS Integers, Sequences, FiniteSets, TLC

\* ------------------------------------------------------------------------
\* Bounds of the model
\* ------------------------------------------------------------------------
\* number of calls of spamprob / learn / unlearn in a run
MaxOps == 2
\* number of links in a scanned message
MaxLinks == 2

\* ------------------------------------------------------------------------
\* Program constants
\* ------------------------------------------------------------------------
\* The values of sbclassifier.classifiers.constants (imported on lines
\* 17-19).  The cutoffs are in hundredths of a probability.  spamprob only
\* compares len(clues) with MAX_DISCRIMINATORS, and the model takes a small
\* value for it, so that evidence lists on both sides of it stay short.
HAM_CUTOFF == 20
SPAM_CUTOFF == 90
MAX_DISCRIMINATORS == 4
\* the socket timeout of the fetch
SLURP_TIMEOUT == 5

None == <<>>

\* ------------------------------------------------------------------------
\* Strings
\* ------------------------------------------------------------------------
Digits == {"0", "1", "2", "3", "4", "5", "6", "7", "8", "9"}
Letters == {"a", "b", "c", "d", "e", "f", "g", "h", "i", "j", "k", "l", "m", "n",
            "o", "p", "q", "r", "s", "t", "u", "v", "w", "x", "y", "z",
            "E", "H", "L", "M", "P", "T"}
\* the characters \W does not match
WordChars == Letters \cup Digits \cup {"_"}

\* s[from..]
Drop(s, n) == SubSeq(s, n + 1, Len(s))
Take(s, n) == SubSeq(s, 1, n)

\* str.startswith
StartsWith(s, prefix) ==
    /\ Len(s) >= Len(prefix)
    /\ Take(s, Len(prefix)) = prefix

\* the positions of s that hold the character c
Positions(s, c) == {i \in 1..Len(s) : s[i] = c}

Min(S) == CHOOSE x \in S : \A y \in S : x <= y

\* s.split(c): the parts of s between the occurrences of c
RECURSIVE Split(_, _)
Split(s, c) ==
    IF Positions(s, c) = {} THEN <<s>>
    ELSE LET i == Min(Positions(s, c))
         IN  <<Take(s, i - 1)>> \o Split(Drop(s, i), c)

\* the longest prefix of s made of characters of the set ok
RECURSIVE PrefixIn(_, _)
PrefixIn(s, ok) ==
    IF s = <<>> \/ s[1] \notin ok THEN <<>>
    ELSE <<s[1]>> \o PrefixIn(Tail(s), ok)

\* the longest prefix of s made of characters outside the set stop
RECURSIVE PrefixNotIn(_, _)
PrefixNotIn(s, stop) ==
    IF s = <<>> \/ s[1] \in stop THEN <<>>
    ELSE <<s[1]>> \o PrefixNotIn(Tail(s), stop)

\* iterating a Python value: the items of a list, the characters of a str
Iter(v) ==
    IF v.ty = "str" THEN [i \in 1..Len(v.items) |-> <<v.items[i]>>]
    ELSE v.items

PyList(toks) == [ty |-> "list", items |-> toks, exc |-> ""]
PyStr(s) == [ty |-> "str", items |-> s, exc |-> ""]
PyRaise(e) == [ty |-> "raise", items |-> <<>>, exc |-> e]
PyNone == [ty |-> "None", items |-> <<>>, exc |-> ""]

\* ------------------------------------------------------------------------
\* Literals of the source
\* ------------------------------------------------------------------------
url_non_resolving == <<"u","r","l",":","n","o","n","_","r","e","s","o","l","v","i","n","g">>
url_non_html == <<"u","r","l",":","n","o","n","_","h","t","m","l">>
url_unknown_error == <<"u","r","l",":","u","n","k","n","o","w","n","_","e","r","r","o","r">>
url_http_ == <<"u","r","l",":","h","t","t","p","_">>
text_html == <<"t","e","x","t","/","h","t","m","l">>
HTTP_Error_ == <<"H","T","T","P"," ","E","r","r","o","r"," ">>
http == <<"h","t","t","p">>
\* NonHtmlExtensions without jpg
NonHtmlExtensionsNoJpg == { <<"g","i","f">>, <<"p","n","g">>, <<"c","s","s">>, <<"j","s">> }

\* the extensions slurp does not retrieve
NonHtmlExtensions == { <<"j","p","g">>, <<"g","i","f">>, <<"p","n","g">>,
                       <<"c","s","s">>, <<"j","s">> }
\* the characters tokenize strips from the end of a link
TrailingChars == {".", ":", ";", "?", "!", "/", ")"}

\* ------------------------------------------------------------------------
\* Regular expressions of the module
\* ------------------------------------------------------------------------
\* DOMAIN_AND_PORT_RE.match(url): ([^:/\\]+)(:([\d]+))?
\* matched is FALSE when the first group is empty (match returns None)
DOMAIN_AND_PORT_RE(url) ==
    LET dom == PrefixNotIn(url, {":", "/", "\\"})
        rest == Drop(url, Len(dom))
        digits == IF rest # <<>> /\ rest[1] = ":" THEN PrefixIn(Tail(rest), Digits)
                  ELSE <<>>
    IN  [matched |-> dom # <<>>, group1 |-> dom, group3 |-> digits]

\* HTTP_ERROR_RE.match(str(details)): HTTP Error ([\d]+)
HTTP_ERROR_RE(details) ==
    LET digits == IF StartsWith(details, HTTP_Error_)
                  THEN PrefixIn(Drop(details, Len(HTTP_Error_)), Digits)
                  ELSE <<>>
    IN  [matched |-> digits # <<>>, group1 |-> digits]

\* URL_KEY_RE.sub('_', url): every character \W matches becomes '_'
URL_KEY(url) == [i \in 1..Len(url) |-> IF url[i] \in WordChars THEN url[i] ELSE "_"]

\* ------------------------------------------------------------------------
\* SlurpingURLStripper.tokenize: the link target without its trailing
\* punctuation (the while loop of the method)
\* ------------------------------------------------------------------------
RECURSIVE StripTrailing(_)
StripTrailing(guts) ==
    IF guts # <<>> /\ guts[Len(guts)] \in TrailingChars
    THEN StripTrailing(Take(guts, Len(guts) - 1))
    ELSE guts

\* ------------------------------------------------------------------------
\* SlurpingClassifier._base_url
\* ------------------------------------------------------------------------
Dot == <<".">>

\* _base_url that never keeps a third label
_base_urlTwoLabels(url) ==
    LET domain == Split(url \o <<"/">>, "/")[1]
        parts == Split(domain, ".")
        n == Len(parts)
    IN  IF n > 2 THEN parts[n - 1] \o Dot \o parts[n] ELSE domain

_base_url(url) ==
    LET domain == Split(url \o <<"/">>, "/")[1]
        parts == Split(domain, ".")
        n == Len(parts)
        two == parts[n - 1] \o Dot \o parts[n]
    IN  IF n > 2
        THEN IF Len(parts[n]) < 3 THEN parts[n - 2] \o Dot \o two ELSE two
        ELSE domain

\* ------------------------------------------------------------------------
\* The negative caches
\* ------------------------------------------------------------------------
\* the keys of bad_urls, in the order the dict literal of setup inserts them
BadKeys == <<url_non_resolving, url_non_html, url_unknown_error>>

EmptyBadUrls == [k \in {BadKeys[i] : i \in 1..Len(BadKeys)} |-> <<>>]
EmptyHttpErrorUrls == [u \in {} |-> <<>>]
EmptyCorpus == [k \in {} |-> <<>>]

\* url in t, for a tuple t
InTuple(url, t) == \E i \in 1..Len(t) : t[i] = url

\* BadHits with only the first bucket looked up
BadHitsFirstBucket(url, bad) == {i \in 1..1 : InTuple(url, bad[BadKeys[i]])}

\* the buckets of bad that hold url, as positions of BadKeys
BadHits(url, bad) == {i \in 1..Len(BadKeys) : InTuple(url, bad[BadKeys[i]])}

\* bad_urls[key] += (url,)
AddBad(bad, key, url) == [bad EXCEPT ![key] = @ \o <<url>>]

\* http_error_urls[url] = value
SetHttpError(errs, url, value) ==
    [u \in DOMAIN errs \cup {url} |-> IF u = url THEN value ELSE errs[u]]

\* urlCorpus.addMessage(urlCorpus.makeMessage(key, text))
AddMessage(corpus, key, doc) ==
    [k \in DOMAIN corpus \cup {key} |-> IF k = key THEN doc ELSE corpus[k]]

\* ------------------------------------------------------------------------
\* SlurpingClassifier.slurp
\*
\* c is the state slurp reads and writes: bad_urls, http_error_urls,
\* urlCorpus, the process-wide default socket timeout, and the
\* X_ONLY_SLURP_BASE option.  e is what the network answers:
\*   e.dns    TRUE when socket.getaddrinfo returns, FALSE when it raises
\*            socket.error
\*   e.open   what request.urlopen does: [k |-> "ok", ctype |-> t] for a
\*            response whose content-type header is t (None when absent),
\*            [k |-> "error", details |-> s] for a URLError or socket.error
\*            whose str() is s
\*   e.read   TRUE when f.read() returns, FALSE when it raises socket.error
\*   e.body   "bytes" or "str": the type of what f.read() returns
\*            (urllib.request gives bytes, urllib2 gives str)
\*   e.page   the body
\* The result holds the returned value (or the exception raised), the state
\* left behind, and the network calls made.
\* ------------------------------------------------------------------------
SlurpOut(ret, c, url, dns, fetch) ==
    [ret |-> ret, c |-> c, url |-> url, dns |-> dns, fetch |-> fetch]

\* lines 371-389: parse the text and tokenize it.  BASIC_HEADER_TOKENIZE is
\* assigned in slurp (line 379), so it is a local of slurp and its read on
\* line 376 raises UnboundLocalError before the tokenizer is called.
SlurpTokenize(c, url, dns, fetch) ==
    SlurpOut(PyRaise("UnboundLocalError"), c, url, dns, fetch)

\* SlurpRead with a failed read recorded in the unknown_error bucket
SlurpReadRecording(c, url, url_key, e) ==
    LET content_type == e.open.ctype
    IN  IF Len(content_type) = 0 \/ ~StartsWith(content_type, text_html)
        THEN SlurpOut(PyList(<<url_non_html>>),
                      [c EXCEPT !.bad_urls = AddBad(@, url_non_html, url)],
                      url, 1, 1)
        ELSE IF ~e.read
        THEN SlurpOut(PyList(<<>>),
                      [c EXCEPT !.bad_urls = AddBad(@, url_unknown_error, url)],
                      url, 1, 1)
        ELSE IF e.body = "bytes"
        THEN SlurpOut(PyRaise("TypeError"), c, url, 1, 1)
        ELSE SlurpTokenize(
                 [c EXCEPT !.urlCorpus =
                      AddMessage(@, url_key,
                                 [headers |-> content_type, page |-> e.page,
                                  origin |-> url])],
                 url, 1, 1)

\* lines 345-367: the response of a successful urlopen
SlurpRead(c, url, url_key, e) ==
    LET content_type == e.open.ctype
    IN  IF Len(content_type) = 0 \/ ~StartsWith(content_type, text_html)
        THEN SlurpOut(PyList(<<url_non_html>>),
                      [c EXCEPT !.bad_urls = AddBad(@, url_non_html, url)],
                      url, 1, 1)
        ELSE IF ~e.read
        THEN SlurpOut(PyList(<<>>), c, url, 1, 1)
        ELSE IF e.body = "bytes"
        THEN \* headers + "\r\n" + page with page a bytes object
             SlurpOut(PyRaise("TypeError"), c, url, 1, 1)
        ELSE SlurpTokenize(
                 [c EXCEPT !.urlCorpus =
                      AddMessage(@, url_key,
                                 [headers |-> content_type, page |-> e.page,
                                  origin |-> url])],
                 url, 1, 1)

\* lines 319-343: the fetch, with the timeout set around it
SlurpFetch(c, proto, url, url_key, e) ==
    LET timeout == c.timeout
        c5 == [c EXCEPT !.timeout = <<SLURP_TIMEOUT>>]
    IN  IF e.open.k = "error"
        THEN LET mo == HTTP_ERROR_RE(e.open.details)
             IN  IF mo.matched
                 THEN SlurpOut(PyList(<<url_http_ \o mo.group1>>),
                               [c5 EXCEPT !.http_error_urls =
                                    SetHttpError(@, url, url_http_ \o mo.group1)],
                               url, 1, 1)
                 ELSE SlurpOut(PyList(<<url_unknown_error>>),
                               [c5 EXCEPT !.bad_urls = AddBad(@, url_unknown_error, url)],
                               url, 1, 1)
        ELSE SlurpRead([c5 EXCEPT !.timeout = timeout], url, url_key, e)

\* lines 292-317 and 368-369: resolve the domain, look the URL up in the
\* corpus, and filter on the extension
SlurpResolve(c, proto, url, e) ==
    LET mo == DOMAIN_AND_PORT_RE(url)
        url_key == URL_KEY(url)
        parts == Split(url, ".")
    IN  IF ~mo.matched
        THEN \* mo is None: mo.group(1) raises
             SlurpOut(PyRaise("AttributeError"), c, url, 0, 0)
        ELSE IF ~e.dns
        THEN SlurpOut(PyList(<<url_non_resolving>>),
                      [c EXCEPT !.bad_urls = AddBad(@, url_non_resolving, url)],
                      url, 1, 0)
        ELSE IF url_key \in DOMAIN c.urlCorpus
        THEN SlurpTokenize(c, url, 1, 0)
        ELSE IF parts[Len(parts)] \in NonHtmlExtensions
        THEN SlurpOut(PyList(<<url_non_html>>),
                      [c EXCEPT !.bad_urls = AddBad(@, url_non_html, url)],
                      url, 1, 0)
        ELSE SlurpFetch(c, proto, url, url_key, e)

\* lines 285-290: the unretrievable caches
SlurpCached(c, url) ==
    IF BadHits(url, c.bad_urls) # {}
    THEN PyList(<<BadKeys[Min(BadHits(url, c.bad_urls))]>>)
    ELSE IF url \in DOMAIN c.http_error_urls
    THEN PyStr(c.http_error_urls[url])
    ELSE PyNone

\* lines 285-369: slurp once url holds the URL it works on
SlurpLookup(c, proto, url, e) ==
    IF SlurpCached(c, url).ty # "None"
    THEN SlurpOut(SlurpCached(c, url), c, url, 0, 0)
    ELSE SlurpResolve(c, proto, url, e)

slurp(c, proto, url0, e) ==
    IF url0 = <<>>
    THEN SlurpOut(PyList(<<url_non_resolving>>), c, url0, 0, 0)
    ELSE SlurpLookup(c, proto,
                     IF c.X_ONLY_SLURP_BASE THEN _base_url(url0) ELSE url0, e)

\* ------------------------------------------------------------------------
\* SlurpingClassifier.setup, _save_caches, _generate_slurp
\*
\* s is the state of the process: the module global slurp_wordstream, the
\* attributes setup_done and do_slurp of the classifier ("unset" when the
\* attribute does not exist), the state c slurp works on, and the pickles
\* on disk.
\* ------------------------------------------------------------------------
\* lines 225-252: the caches of unretrievable URLs are read from their
\* pickles, or start empty
setup(s) ==
    [s EXCEPT !.setup_done = TRUE,
              !.c.bad_urls = IF s.disk.exists THEN s.disk.bad_urls ELSE EmptyBadUrls,
              !.c.http_error_urls = IF s.disk.exists THEN s.disk.http_error_urls
                                    ELSE EmptyHttpErrorUrls]

\* _save_caches that writes bad_urls only
_save_cachesBadUrlsOnly(s) ==
    [s EXCEPT !.disk = [exists |-> TRUE, bad_urls |-> s.c.bad_urls,
                        http_error_urls |-> s.disk.http_error_urls]]

_save_caches(s) ==
    [s EXCEPT !.disk = [exists |-> TRUE, bad_urls |-> s.c.bad_urls,
                        http_error_urls |-> s.c.http_error_urls]]

\* what a call of _generate_slurp did: the value returned (or the exception
\* that left it), the state after it, and whether slurp was called, with
\* which URL, and the network calls it made
GenOut(ret, s, called, url, dns, fetch) ==
    [ret |-> ret, s |-> s, called |-> called, url |-> url, dns |-> dns, fetch |-> fetch]

\* MaySlurp without the test of do_slurp
MaySlurpAlways(do_slurp) == do_slurp \in {"unset", "True", "False"}

\* the guard of _generate_slurp (line 180)
MaySlurp(do_slurp) == do_slurp \in {"unset", "True"}

\* the state in which slurp runs: setup is done and line 182 has cleared
\* do_slurp
Entered(s) == [s EXCEPT !.setup_done = TRUE, !.do_slurp = "False"]

\* lines 182-187: do_slurp is cleared, slurp has answered r, and do_slurp
\* is set again and the caches saved when slurp returned
GenSlurped(s, r) ==
    IF r.ret.ty = "raise"
    THEN \* the exception leaves _generate_slurp at line 184
         GenOut(r.ret, [s EXCEPT !.do_slurp = "False", !.c = r.c],
                TRUE, r.url, r.dns, r.fetch)
    ELSE GenOut(r.ret, _save_caches([s EXCEPT !.do_slurp = "True", !.c = r.c]),
                TRUE, r.url, r.dns, r.fetch)

\* lines 180-188: _generate_slurp after setup
GenGuarded(s, e) ==
    IF MaySlurp(s.do_slurp) /\ Len(s.slurp_wordstream) # 0
    THEN GenSlurped(s, slurp(s.c, s.slurp_wordstream[1], s.slurp_wordstream[2], e))
    ELSE GenOut(PyList(<<>>), s, FALSE, <<>>, 0, 0)

_generate_slurp(s0, e) ==
    GenGuarded(IF ~s0.setup_done THEN setup(s0) ELSE s0, e)

\* ------------------------------------------------------------------------
\* SlurpingClassifier.spamprob
\*
\* The base classifier (Classifier.spamprob) is outside the module: score1
\* and score2 are what its first and second call return, records
\* [prob |-> p, clues |-> <<<<word, p>>, ...>>].
\* ------------------------------------------------------------------------
\* ShouldSlurp without the test of the evidence count
ShouldSlurpAnyCount(prob, clues, slurp_ws) ==
    /\ prob > HAM_CUTOFF
    /\ prob < SPAM_CUTOFF
    /\ Len(slurp_ws) # 0

\* the condition of lines 140-141
ShouldSlurp(prob, clues, slurp_ws) ==
    /\ Len(clues) < MAX_DISCRIMINATORS
    /\ prob > HAM_CUTOFF
    /\ prob < SPAM_CUTOFF
    /\ Len(slurp_ws) # 0

\* Blend with the evidence of the first score kept beside the second
\* probability
BlendProbOnly(score1, score2) ==
    IF score2.prob < HAM_CUTOFF \/ score2.prob > SPAM_CUTOFF
    THEN [prob |-> score2.prob, clues |-> score1.clues]
    ELSE score1

\* lines 145-147: which of the two scores stands
Blend(score1, score2) ==
    IF score2.prob < HAM_CUTOFF \/ score2.prob > SPAM_CUTOFF
    THEN score2
    ELSE score1

\* [w for (w, _p) in clues]
ClueWords(clues) == [i \in 1..Len(clues) |-> clues[i][1]]

\* the value spamprob returns: (prob, clues) with evidence, prob without
Reported(score, evidence) ==
    [ty |-> "ok", prob |-> score.prob,
     clues |-> IF evidence THEN score.clues ELSE <<>>, exc |-> ""]

Raised(exc) == [ty |-> "raise", prob |-> 0, clues |-> <<>>, exc |-> exc]

NoGen(s) == GenOut(PyNone, s, FALSE, <<>>, 0, 0)

\* the outcome of spamprob: the value returned, the calls of the base
\* classifier (their inputs and results), and the call of _generate_slurp
\* super().spamprob(input, True) and what it returned
BaseCall(input, score) == [input |-> input, evidence |-> TRUE, score |-> score]

\* lines 142-147: _generate_slurp has answered g
Rescored(wordstream, evidence, score1, score2, g) ==
    IF g.ret.ty = "raise"
    THEN [result |-> Raised(g.ret.exc),
          scores |-> <<BaseCall(wordstream, score1)>>, g |-> g]
    ELSE [result |-> Reported(Blend(score1, score2), evidence),
          scores |-> <<BaseCall(wordstream, score1),
                       BaseCall(Iter(g.ret) \o ClueWords(score1.clues), score2)>>,
          g |-> g]

spamprob(s, wordstream, evidence, score1, score2, e) ==
    IF ShouldSlurp(score1.prob, score1.clues, s.slurp_wordstream)
    THEN Rescored(wordstream, evidence, score1, score2, _generate_slurp(s, e))
    ELSE [result |-> Reported(score1, evidence),
          scores |-> <<BaseCall(wordstream, score1)>>, g |-> NoGen(s)]

\* ------------------------------------------------------------------------
\* SlurpingClassifier.learn / unlearn / _add_slurped
\* ------------------------------------------------------------------------
bi_ == <<"b", "i", ":">>

\* Classifier._enhance_wordstream: every token, and after each token but
\* the first the bigram "bi:<previous> <token>"
RECURSIVE _enhance_wordstream(_)
_enhance_wordstream(ws) ==
    IF Len(ws) < 2 THEN ws
    ELSE LET n == Len(ws)
         IN  _enhance_wordstream(Take(ws, n - 1))
                 \o <<ws[n], bi_ \o ws[n - 1] \o <<" ">> \o ws[n]>>

\* the tokens the generator _add_slurped yields, or the exception that
\* ends it
Yielded(wordstream, g) ==
    [passed |-> IF g.ret.ty = "raise" THEN g.ret
                ELSE PyList(wordstream \o Iter(g.ret)),
     g |-> g]

_add_slurped(s, wordstream, e) == Yielded(wordstream, _generate_slurp(s, e))

\* learn and unlearn: what _add_msg / _remove_msg is given
learn(s, wordstream, e) ==
    _add_slurped(s, IF s.USE_BIGRAMS THEN _enhance_wordstream(wordstream)
                    ELSE wordstream, e)

unlearn(s, wordstream, e) ==
    _add_slurped(s, IF s.USE_BIGRAMS THEN _enhance_wordstream(wordstream)
                    ELSE wordstream, e)

\* ------------------------------------------------------------------------
\* SlurpingURLStripper.analyze / tokenize
\*
\* A message is the sequence of its links <<proto, guts>>, in the order the
\* URL pattern of URLStripper finds them.
\* ------------------------------------------------------------------------
\* tokenize(m): the value the method assigns to its name slurp_wordstream.
\* The method has no global statement, so the name is a local of the call.
tokenize(local, link) ==
    IF link[1] # http THEN local
    ELSE <<link[1], StripTrailing(link[2])>>

RECURSIVE TokenizeAll(_, _)
TokenizeAll(local, links) ==
    IF links = <<>> THEN local
    ELSE TokenizeAll(tokenize(local, Head(links)), Tail(links))

\* analyze(text): slurp_wordstream = None on line 102 binds a local of
\* analyze, and the assignments of tokenize bind locals of tokenize: the
\* module global keeps its value.  The result is the global after the scan,
\* and the value the last assignment gave to the local name.
analyze(slurp_ws, links) ==
    [slurp_wordstream |-> slurp_ws, local |-> TokenizeAll(None, links)]

\* ------------------------------------------------------------------------
\* The state machine
\* ------------------------------------------------------------------------
VARIABLES
    slurp_wordstream,   \* the module global (line 91): None or <<proto, guts>>
    setup_done,         \* the classifier has the attribute setup_done
    do_slurp,           \* the attribute do_slurp: "unset", "True" or "False"
    bad_urls,           \* bucket token -> tuple of URLs
    http_error_urls,    \* URL -> status token
    urlCorpus,          \* key -> cached document
    timeout,            \* socket.getdefaulttimeout(): None or <<seconds>>
    disk,               \* the pickles written by _save_caches
    X_ONLY_SLURP_BASE,  \* the option of line 83
    USE_BIGRAMS,        \* the option imported on line 20
    last,               \* what the last call was given, did and returned
    nops                \* the number of spamprob / learn / unlearn calls so far

vars == <<slurp_wordstream, setup_done, do_slurp, bad_urls, http_error_urls,
          urlCorpus, timeout, disk, X_ONLY_SLURP_BASE, USE_BIGRAMS, last, nops>>

\* the state as the record the operations work on
Caches == [bad_urls |-> bad_urls, http_error_urls |-> http_error_urls,
           urlCorpus |-> urlCorpus, timeout |-> timeout,
           X_ONLY_SLURP_BASE |-> X_ONLY_SLURP_BASE]

State == [slurp_wordstream |-> slurp_wordstream, setup_done |-> setup_done,
          do_slurp |-> do_slurp, c |-> Caches, disk |-> disk,
          USE_BIGRAMS |-> USE_BIGRAMS]

Install(s) ==
    /\ slurp_wordstream' = s.slurp_wordstream
    /\ setup_done' = s.setup_done
    /\ do_slurp' = s.do_slurp
    /\ bad_urls' = s.c.bad_urls
    /\ http_error_urls' = s.c.http_error_urls
    /\ urlCorpus' = s.c.urlCorpus
    /\ timeout' = s.c.timeout
    /\ disk' = s.disk
    /\ UNCHANGED <<X_ONLY_SLURP_BASE, USE_BIGRAMS>>

\* --- the inputs -----------------------------------------------------------
\* link targets as they stand in a message
Guts == { <<"w",".","x",".","n","e","t","/",".">>,
          <<"w",".","x","/","n","e","t">>,
          <<"x",".","n","e","t","/","a",".","j","p","g">>,
          <<")">> }

ftp == <<"f","t","p">>

Links == ({http} \X Guts) \cup { <<ftp, <<"x",".","n","e","t","/","a",".","j","p","g">> >> }

Messages == UNION { [1..n -> Links] : n \in 0..MaxLinks }

\* the references a scan of a message is meant to leave
Refs == { <<http, StripTrailing(g)>> : g \in Guts }

Word(c) == <<c>>

WordStreams == { <<Word("w"), Word("v")>> }

Probs == {10, 20, 50, 90, 95}

Clues(n, c, p) == [i \in 1..n |-> <<Word(c), p>>]

ClueLists == { Clues(3, "w", 50), Clues(MAX_DISCRIMINATORS, "v", 90) }

Scores == [prob : Probs, clues : ClueLists]

\* the scores of a second call: its evidence is that of another token stream
Scores2 == [prob : Probs, clues : { Clues(2, "u", 10) }]

html_charset == text_html \o <<";"," ","c","h","a","r","s","e","t","=","x">>
Text_HTML == <<"T","e","x","t","/","H","T","M","L">>
Page == <<"p">>

NoOpen == [k |-> "none", ctype |-> None, details |-> <<>>]
Opened(ctype) == [k |-> "ok", ctype |-> ctype, details |-> <<>>]
OpenError(details) == [k |-> "error", ctype |-> None, details |-> details]

Env(dns, open, read, body) ==
    [dns |-> dns, open |-> open, read |-> read, body |-> body, page |-> Page]

\* the answers of the network
Envs == { Env(FALSE, NoOpen, FALSE, "bytes"),
          Env(TRUE, OpenError(HTTP_Error_ \o <<"4","0","4",":"," ","x">>), FALSE, "bytes"),
          Env(TRUE, OpenError(<<"t","i","m","e","d"," ","o","u","t">>), FALSE, "bytes"),
          Env(TRUE, Opened(None), TRUE, "bytes"),
          Env(TRUE, Opened(Text_HTML), TRUE, "bytes"),
          Env(TRUE, Opened(html_charset), FALSE, "bytes"),
          Env(TRUE, Opened(html_charset), TRUE, "bytes"),
          Env(TRUE, Opened(html_charset), TRUE, "str") }

\* the network answers that matter to a call of _generate_slurp in state s:
\* all of them when it reaches slurp, one (never read) when it does not
NoEnv == Env(FALSE, NoOpen, FALSE, "bytes")

EnvsFor(s) ==
    IF MaySlurp(s.do_slurp) /\ Len(s.slurp_wordstream) # 0 THEN Envs
    ELSE { NoEnv }

\* what the base classifier may return for the second call of spamprob: any
\* score when there is a second call, one (never read) when there is none
Scores2For(s, score1) ==
    IF ShouldSlurp(score1.prob, score1.clues, s.slurp_wordstream) THEN Scores2
    ELSE { score1 }

\* --- what a call leaves in last -------------------------------------------
NoResult == [ty |-> "none", prob |-> 0, clues |-> <<>>, exc |-> ""]

\* what urlopen answered when slurp called it: "none" when it was not called
Answer(g, e) == IF g.fetch > 0 THEN e.open.k ELSE "none"

\* what is seen of a call of _generate_slurp; resolved tells that slurp
\* called getaddrinfo and that it returned, answer and ctype what urlopen
\* gave, and read_error that the try block of lines 345-359 reached f.read()
\* and f.read() raised socket.error
GenSeen(g, e) == [ret |-> g.ret, called |-> g.called, url |-> g.url,
                  dns |-> g.dns, fetch |-> g.fetch,
                  resolved |-> g.dns > 0 /\ e.dns,
                  answer |-> Answer(g, e),
                  ctype |-> IF Answer(g, e) = "ok" THEN e.open.ctype ELSE None,
                  read_error |-> /\ Answer(g, e) = "ok"
                                 /\ StartsWith(e.open.ctype, text_html)
                                 /\ ~e.read]

NoGenSeen == [ret |-> PyNone, called |-> FALSE, url |-> <<>>, dns |-> 0, fetch |-> 0,
              resolved |-> FALSE, answer |-> "none", ctype |-> None,
              read_error |-> FALSE]

\* the calls that may retrieve
RetrievalOps == {"spamprob", "learn", "unlearn"}

NoPrev == [op |-> "none", wordstream |-> <<>>, passed |-> PyNone,
           g |-> NoGenSeen, slurp_wordstream |-> None]

\* what a call of RetrievalOps keeps of the step before it: the call that
\* step was, when it was one of RetrievalOps
Prev ==
    IF last.op \in RetrievalOps
    THEN [op |-> last.op, wordstream |-> last.wordstream, passed |-> last.passed,
          g |-> last.g, slurp_wordstream |-> last.pre.slurp_wordstream]
    ELSE NoPrev

Pre == [c |-> Caches, disk |-> disk, setup_done |-> setup_done,
        do_slurp |-> do_slurp, slurp_wordstream |-> slurp_wordstream]

SeenAfter(op, prev) ==
    [op |-> op, wordstream |-> <<>>, evidence |-> FALSE, links |-> <<>>,
     local |-> None, result |-> NoResult, scores |-> <<>>, passed |-> PyNone,
     g |-> NoGenSeen, pre |-> Pre, prev |-> prev, url |-> <<>>, base_url |-> <<>>]

Seen(op) == SeenAfter(op, NoPrev)

Called(op) == SeenAfter(op, Prev)

\* the module is imported and a SlurpingClassifier constructed; no file of
\* the cache directory exists
Fresh ==
    /\ slurp_wordstream = None
    /\ setup_done = FALSE
    /\ do_slurp = "unset"
    /\ bad_urls = EmptyBadUrls
    /\ http_error_urls = EmptyHttpErrorUrls
    /\ urlCorpus = EmptyCorpus
    /\ timeout = None
    /\ disk = [exists |-> FALSE, bad_urls |-> EmptyBadUrls,
               http_error_urls |-> EmptyHttpErrorUrls]
    /\ X_ONLY_SLURP_BASE \in BOOLEAN
    /\ USE_BIGRAMS \in BOOLEAN
    /\ nops = 0

Init ==
    /\ Fresh
    /\ last = Seen("init")

\* --- the actions ----------------------------------------------------------
\* a client of the module binds the module attribute slurp_wordstream
SetSlurpWordstream ==
    \E ref \in Refs :
        /\ slurp_wordstream' = ref
        /\ last' = Seen("set")
        /\ UNCHANGED <<setup_done, do_slurp, bad_urls, http_error_urls, urlCorpus,
                       timeout, disk, X_ONLY_SLURP_BASE, USE_BIGRAMS, nops>>

\* SlurpingURLStripper.analyze(text), with the calls of tokenize it makes
Analyze ==
    \E links \in Messages :
        \E r \in {analyze(slurp_wordstream, links)} :
            /\ slurp_wordstream' = r.slurp_wordstream
            /\ last' = [Seen("analyze") EXCEPT !.links = links, !.local = r.local]
            /\ UNCHANGED <<setup_done, do_slurp, bad_urls, http_error_urls, urlCorpus,
                           timeout, disk, X_ONLY_SLURP_BASE, USE_BIGRAMS, nops>>

Spamprob ==
    /\ nops < MaxOps
    /\ \E wordstream \in WordStreams, evidence \in BOOLEAN, score1 \in Scores :
       \E score2 \in Scores2For(State, score1), e \in EnvsFor(State) :
        \E r \in {spamprob(State, wordstream, evidence, score1, score2, e)} :
            /\ Install(r.g.s)
            /\ last' = [Called("spamprob") EXCEPT !.wordstream = wordstream,
                            !.evidence = evidence, !.result = r.result,
                            !.scores = r.scores, !.g = GenSeen(r.g, e)]
    /\ nops' = nops + 1

Learn ==
    /\ nops < MaxOps
    /\ \E wordstream \in WordStreams, e \in EnvsFor(State) :
        \E r \in {learn(State, wordstream, e)} :
            /\ Install(r.g.s)
            /\ last' = [Called("learn") EXCEPT !.wordstream = wordstream,
                            !.passed = r.passed, !.g = GenSeen(r.g, e)]
    /\ nops' = nops + 1

Unlearn ==
    /\ nops < MaxOps
    /\ \E wordstream \in WordStreams, e \in EnvsFor(State) :
        \E r \in {unlearn(State, wordstream, e)} :
            /\ Install(r.g.s)
            /\ last' = [Called("unlearn") EXCEPT !.wordstream = wordstream,
                            !.passed = r.passed, !.g = GenSeen(r.g, e)]
    /\ nops' = nops + 1

\* a new SlurpingClassifier is constructed over the same cache directory:
\* the object has none of the attributes setup_done, do_slurp, bad_urls and
\* http_error_urls until _generate_slurp and setup assign them; the pickles,
\* the files of the corpus, the module global and the socket default stay
NewClassifier ==
    /\ setup_done' = FALSE
    /\ do_slurp' = "unset"
    /\ bad_urls' = EmptyBadUrls
    /\ http_error_urls' = EmptyHttpErrorUrls
    /\ last' = Seen("new")
    /\ UNCHANGED <<slurp_wordstream, urlCorpus, timeout, disk, X_ONLY_SLURP_BASE,
                   USE_BIGRAMS, nops>>

Next ==
    \/ SetSlurpWordstream
    \/ Analyze
    \/ Spamprob
    \/ Learn
    \/ Unlearn
    \/ NewClassifier

Spec == Init /\ [][Next]_vars

\* the runs that score messages
NextScore ==
    \/ SetSlurpWordstream
    \/ Spamprob

SpecScore == Init /\ [][NextScore]_vars

\* the runs that scan messages and train on them
NextLearn ==
    \/ SetSlurpWordstream
    \/ Analyze
    \/ Learn
    \/ Unlearn

SpecLearn == Init /\ [][NextLearn]_vars

\* the runs that train on a pending URL reference
NextTrain ==
    \/ SetSlurpWordstream
    \/ Learn
    \/ Unlearn

SpecTrain == Init /\ [][NextTrain]_vars

\* the runs that train with one classifier after another over one cache
\* directory
NextCache ==
    \/ SetSlurpWordstream
    \/ Learn
    \/ Unlearn
    \/ NewClassifier

SpecCache == Init /\ [][NextCache]_vars

\* the runs of every call that may retrieve, with one classifier after
\* another
NextRetrieve ==
    \/ SetSlurpWordstream
    \/ Spamprob
    \/ Learn
    \/ Unlearn
    \/ NewClassifier

SpecRetrieve == Init /\ [][NextRetrieve]_vars

\* --- _base_url on its own ---------------------------------------------------
MaxLabels == 4

BaseUrlLabels == { <<"w">>, <<"n","z">>, <<"c","o","m">> }

\* labels joined by dots
RECURSIVE Join(_)
Join(labels) ==
    IF Len(labels) = 1 THEN labels[1]
    ELSE labels[1] \o Dot \o Join(Tail(labels))

www_massey_ac_nz == <<"w","w","w",".","m","a","s","s","e","y",".","a","c",".","n","z">>
massey_ac_nz == <<"m","a","s","s","e","y",".","a","c",".","n","z">>
id_example_com == <<"i","d",".","e","x","a","m","p","l","e",".","c","o","m">>
example_com == <<"e","x","a","m","p","l","e",".","c","o","m">>

BaseUrlDomains ==
    { Join(ls) : ls \in UNION { [1..n -> BaseUrlLabels] : n \in 1..MaxLabels } }
        \cup { www_massey_ac_nz, id_example_com }

BaseUrlPaths == { <<>>, <<"/">>, <<"/","a",".","b","/","c">> }

\* the URLs _base_url is given: a domain, then nothing or a path
BaseUrlInputs == { d \o path : d \in BaseUrlDomains, path \in BaseUrlPaths }

InitBaseUrl ==
    /\ Fresh
    /\ \E url \in BaseUrlInputs : last = [Seen("init") EXCEPT !.url = url]

\* _base_url(url)
BaseUrl ==
    /\ last.op = "init"
    /\ last' = [last EXCEPT !.op = "_base_url", !.base_url = _base_url(last.url)]
    /\ UNCHANGED <<slurp_wordstream, setup_done, do_slurp, bad_urls, http_error_urls,
                   urlCorpus, timeout, disk, X_ONLY_SLURP_BASE, USE_BIGRAMS, nops>>

\* _base_url of what _base_url returned
BaseUrlAgain ==
    /\ last.op = "_base_url"
    /\ last' = [last EXCEPT !.op = "_base_url again", !.url = last.base_url,
                            !.base_url = _base_url(last.base_url)]
    /\ UNCHANGED <<slurp_wordstream, setup_done, do_slurp, bad_urls, http_error_urls,
                   urlCorpus, timeout, disk, X_ONLY_SLURP_BASE, USE_BIGRAMS, nops>>

NextBaseUrl ==
    \/ BaseUrl
    \/ BaseUrlAgain

SpecBaseUrl == InitBaseUrl /\ [][NextBaseUrl]_vars

\* ------------------------------------------------------------------------
\* Properties
\* ------------------------------------------------------------------------
\* the state slurp works on is what it was before the last call
CachesUnchanged ==
    /\ bad_urls = last.pre.c.bad_urls
    /\ http_error_urls = last.pre.c.http_error_urls
    /\ urlCorpus = last.pre.c.urlCorpus
    /\ timeout = last.pre.c.timeout

\* the URL the last call found pending
PendingUrl == last.pre.slurp_wordstream[2]

\* url is recorded in a negative-cache tier of the caches c
InBucket(c, key, url) == InTuple(url, c.bad_urls[key])

Recorded(c, url) ==
    \/ \E i \in 1..Len(BadKeys) : InBucket(c, BadKeys[i], url)
    \/ url \in DOMAIN c.http_error_urls

\* the last call returned exactly the list toks from slurp
Returned(toks) == last.g.ret.ty = "list" /\ last.g.ret.items = toks

\* C1: when the base score has MAX_DISCRIMINATORS clues or more, or a
\* probability at or below HAM_CUTOFF or at or above SPAM_CUTOFF, spamprob
\* scores the base classifier once and does not augment: no call of
\* _generate_slurp or slurp, no DNS lookup, no fetch, no change of a cache.
C1_Undecidable(score) ==
    \/ Len(score.clues) >= MAX_DISCRIMINATORS
    \/ score.prob <= HAM_CUTOFF
    \/ score.prob >= SPAM_CUTOFF

C1_NoAugmentation ==
    (last.op = "spamprob" /\ C1_Undecidable(last.scores[1].score)) =>
        /\ Len(last.scores) = 1
        /\ ~last.g.called
        /\ last.g.dns = 0
        /\ last.g.fetch = 0
        /\ CachesUnchanged
        /\ disk = last.pre.disk
        /\ setup_done = last.pre.setup_done
        /\ do_slurp = last.pre.do_slurp

\* a spamprob with a URL pending and an inconclusive probability that the
\* evidence count alone kept from augmenting
C1_Witness ==
    /\ last.op = "spamprob"
    /\ Len(last.pre.slurp_wordstream) # 0
    /\ last.scores[1].score.prob > HAM_CUTOFF
    /\ last.scores[1].score.prob < SPAM_CUTOFF
    /\ Len(last.scores[1].score.clues) >= MAX_DISCRIMINATORS
    /\ Len(last.scores) = 1

\* C2: after an augmented re-score spamprob reports the second score with
\* the second evidence when the second probability is below HAM_CUTOFF or
\* above SPAM_CUTOFF, and the first score with the first evidence otherwise.
C2_Decisive(score) == score.prob < HAM_CUTOFF \/ score.prob > SPAM_CUTOFF

C2_Reports(score) ==
    /\ last.result.ty = "ok"
    /\ last.result.prob = score.prob
    /\ last.evidence => last.result.clues = score.clues

C2_BlendedResult ==
    (last.op = "spamprob" /\ Len(last.scores) = 2) =>
        IF C2_Decisive(last.scores[2].score)
        THEN C2_Reports(last.scores[2].score)
        ELSE C2_Reports(last.scores[1].score)

\* a re-score that was decisive, reported with evidence that differs from
\* the evidence of the base score
C2_Witness ==
    /\ last.op = "spamprob"
    /\ Len(last.scores) = 2
    /\ last.evidence
    /\ C2_Decisive(last.scores[2].score)
    /\ last.scores[2].score.clues # last.scores[1].score.clues
    /\ last.result.clues = last.scores[2].score.clues

\* C3: a slurp of a URL that is recorded in a negative-cache tier (a bucket
\* of bad_urls, or http_error_urls) returns without a DNS lookup and without
\* a fetch; for a URL of the non_resolving bucket it returns exactly
\* ["url:non_resolving"].
C3_NegativeCacheFirst ==
    (last.g.called /\ (Recorded(last.pre.c, PendingUrl) \/ Recorded(last.pre.c, last.g.url))) =>
        /\ last.g.dns = 0
        /\ last.g.fetch = 0
        /\ last.g.ret.ty # "raise"
        /\ CachesUnchanged
        /\ InBucket(last.pre.c, url_non_resolving, last.g.url)
               => Returned(<<url_non_resolving>>)

\* a slurp of a URL that an earlier slurp recorded in the non_html or the
\* unknown_error bucket or in the status map, answered without a lookup
C3_Witness ==
    /\ last.g.called
    /\ PendingUrl # <<>>
    /\ Recorded(last.pre.c, PendingUrl)
    /\ ~InBucket(last.pre.c, url_non_resolving, PendingUrl)
    /\ last.g.dns = 0

\* C4: no failure of the retrieval leaves spamprob as a fault: every call of
\* spamprob returns a probability.
C4_SpamprobReturns ==
    last.op = "spamprob" => last.result.ty = "ok"

\* C5: a call of slurp leaves the default socket timeout as it found it.
C5_TimeoutRestored ==
    last.g.called => timeout = last.pre.c.timeout

\* C6: a slurp of a URL of the status map returns the one-token list that
\* the failed fetch of that URL returned, [http_error_urls[url]].
C6_CachedStatusToken ==
    (last.g.called /\ last.g.url \in DOMAIN last.pre.c.http_error_urls) =>
        Returned(<<last.pre.c.http_error_urls[last.g.url]>>)

\* the links of a message that are http links
HttpLinks(links) == SelectSeq(links, LAMBDA link : link[1] = http)

\* C7: after the scan of a message without an http link no URL reference
\* is pending.
C7_ScanClearsPending ==
    (last.op = "analyze" /\ HttpLinks(last.links) = <<>>) =>
        slurp_wordstream = None

\* C8: after the scan of a message with http links the pending reference is
\* ("http", target) for the last of them, target without its trailing
\* punctuation.
C8_LastHttpLinkPending ==
    (last.op = "analyze" /\ HttpLinks(last.links) # <<>>) =>
        LET link == HttpLinks(last.links)[Len(HttpLinks(last.links))]
        IN  slurp_wordstream = <<http, StripTrailing(link[2])>>

\* C9: learn and unlearn, called with a URL pending, resolve it and give
\* the base classifier the wordstream (with its bigrams when USE_BIGRAMS)
\* followed by the tokens of the resolution.
C9_LearnAppendsSlurped ==
    (last.op \in {"learn", "unlearn"} /\ Len(last.pre.slurp_wordstream) # 0) =>
        /\ last.g.called
        /\ last.passed.ty = "list"
        /\ last.passed.items =
               (IF USE_BIGRAMS THEN _enhance_wordstream(last.wordstream)
                ELSE last.wordstream) \o Iter(last.g.ret)

\* url ends in .jpg
jpg == <<".", "j", "p", "g">>

EndsWithJpg(url) ==
    Len(url) >= Len(jpg) /\ Drop(url, Len(url) - Len(jpg)) = jpg

\* C10 as stated: a slurp of a URL that ends in .jpg returns exactly
\* ["url:non_html"], leaves the URL in the non_html bucket and fetches
\* nothing, whatever the caches, the resolution and the option.
C10_JpgAlwaysNonHtml ==
    (last.g.called /\ EndsWithJpg(PendingUrl)) =>
        /\ Returned(<<url_non_html>>)
        /\ InBucket(Caches, url_non_html, PendingUrl)
        /\ last.g.fetch = 0

\* C10 amended: with X_ONLY_SLURP_BASE off, a slurp of a URL that ends in
\* .jpg fetches nothing; when the URL is in no cache tier other than the
\* non_html bucket and its domain resolves (or it is in that bucket), it
\* returns exactly ["url:non_html"] and the URL is in the non_html bucket.
C10_InNoOtherTier(c, url) ==
    /\ ~InBucket(c, url_non_resolving, url)
    /\ ~InBucket(c, url_unknown_error, url)
    /\ url \notin DOMAIN c.http_error_urls
    /\ URL_KEY(url) \notin DOMAIN c.urlCorpus

C10_JpgNotFetched ==
    (last.g.called /\ EndsWithJpg(PendingUrl) /\ ~X_ONLY_SLURP_BASE) =>
        /\ last.g.fetch = 0
        /\ ( /\ C10_InNoOtherTier(last.pre.c, PendingUrl)
             /\ last.g.resolved \/ InBucket(last.pre.c, url_non_html, PendingUrl) )
           => /\ Returned(<<url_non_html>>)
              /\ InBucket(Caches, url_non_html, PendingUrl)

\* the first slurp of a .jpg URL whose domain resolves
C10_Witness ==
    /\ last.g.called
    /\ EndsWithJpg(PendingUrl)
    /\ ~X_ONLY_SLURP_BASE
    /\ last.g.resolved
    /\ Returned(<<url_non_html>>)
    /\ ~InBucket(last.pre.c, url_non_html, PendingUrl)

\* the last call reached slurp, no negative-cache tier answered it (slurp
\* removes no entry, so a URL in no tier after the call was in none before
\* it), its domain resolved, and the corpus held a document under its key
CorpusHit ==
    /\ last.g.called
    /\ ~Recorded(Caches, last.g.url)
    /\ last.g.resolved
    /\ URL_KEY(last.g.url) \in DOMAIN last.pre.c.urlCorpus

\* C11: a slurp of a URL whose document is in the corpus looks its domain
\* up, makes no fetch, adds no document to the corpus and returns the
\* tokens of the stored document.
C11_ServedFromCache ==
    CorpusHit =>
        /\ last.g.dns = 1
        /\ last.g.fetch = 0
        /\ urlCorpus = last.pre.c.urlCorpus
        /\ last.g.ret.ty = "list"

\* C12: when f.read() raises socket.error after urlopen returned, slurp
\* returns the empty list and leaves bad_urls, http_error_urls, the corpus
\* and the socket default as they were; the slurp of the same URL by the
\* next call is not answered from a cache: it looks the domain up again
\* and, when the domain resolves, fetches the URL again.
C12_ReadFailureTransient ==
    /\ last.g.read_error =>
           /\ Returned(<<>>)
           /\ CachesUnchanged
    /\ (last.prev.g.read_error /\ last.g.called /\ last.g.url = last.prev.g.url) =>
           /\ last.g.dns = 1
           /\ last.g.resolved => last.g.fetch = 1

\* a fetch of the URL whose read had failed in the call before
C12_Witness ==
    /\ last.op \in RetrievalOps
    /\ last.prev.g.read_error
    /\ last.prev.g.ret = PyList(<<>>)
    /\ last.g.called
    /\ last.g.url = last.prev.g.url
    /\ last.g.fetch = 1

\* the upper-case letters of the model's alphabet with their lower case
LowerOf == [ch \in {"E", "H", "L", "M", "P", "T"} |->
               CASE ch = "E" -> "e" [] ch = "H" -> "h" [] ch = "L" -> "l"
                 [] ch = "M" -> "m" [] ch = "P" -> "p" [] ch = "T" -> "t"]

Lower(s) == [i \in 1..Len(s) |-> IF s[i] \in DOMAIN LowerOf THEN LowerOf[s[i]] ELSE s[i]]

\* the declared content type starts with text/html, whatever its case
DeclaresHtml(ctype) == StartsWith(Lower(ctype), text_html)

\* C13: of the responses urlopen returns, only one whose content type
\* starts with text/html, compared without regard to case, adds a document
\* to the corpus, and such a response is not turned away as non_html; a
\* response with no content type or another one puts the URL in the
\* non_html bucket, returns ["url:non_html"] and adds nothing to the corpus.
C13_ContentTypeGate ==
    last.g.answer = "ok" =>
        /\ urlCorpus # last.pre.c.urlCorpus => DeclaresHtml(last.g.ctype)
        /\ DeclaresHtml(last.g.ctype) =>
               /\ ~InBucket(Caches, url_non_html, last.g.url)
               /\ ~Returned(<<url_non_html>>)
        /\ ~DeclaresHtml(last.g.ctype) =>
               /\ InBucket(Caches, url_non_html, last.g.url)
               /\ Returned(<<url_non_html>>)
               /\ urlCorpus = last.pre.c.urlCorpus

\* the labels of a domain, and the last k of them joined
C14_Labels(domain) == Split(domain, ".")

C14_LastLabels(labels, k) == Join(SubSeq(labels, Len(labels) - k + 1, Len(labels)))

\* the rule of the claim: the URL up to its first '/', as it is when it has
\* at most two labels, else its last two labels, or its last three when the
\* last label has fewer than 3 characters
C14_Rule(url) ==
    LET domain == PrefixNotIn(url, {"/"})
        labels == C14_Labels(domain)
    IN  IF Len(labels) <= 2 THEN domain
        ELSE IF Len(labels[Len(labels)]) < 3 THEN C14_LastLabels(labels, 3)
        ELSE C14_LastLabels(labels, 2)

\* C14: _base_url returns what the rule gives (www.massey.ac.nz gives
\* massey.ac.nz, id.example.com gives example.com), and _base_url of a
\* result of _base_url is that result.
C14_BaseUrlRule ==
    last.op \in {"_base_url", "_base_url again"} =>
        /\ last.base_url = C14_Rule(last.url)
        /\ StartsWith(last.url, www_massey_ac_nz) => last.base_url = massey_ac_nz
        /\ StartsWith(last.url, id_example_com) => last.base_url = example_com
        /\ last.op = "_base_url again" => last.base_url = last.url

\* _base_url applied to a three-label result of _base_url
C14_Witness ==
    /\ last.op = "_base_url again"
    /\ Len(C14_Labels(last.url)) = 3
    /\ last.base_url = last.url

\* C15: however the slurp called by _generate_slurp ends, do_slurp is True
\* when _generate_slurp is left, and the learn or unlearn that follows with
\* a URL pending calls slurp again.
C15_GuardReleased ==
    /\ last.g.called => do_slurp = "True"
    /\ ( /\ last.op \in {"learn", "unlearn"}
         /\ last.prev.g.called
         /\ Len(last.pre.slurp_wordstream) # 0 ) => last.g.called

\* the call g of _generate_slurp in state s did nothing and returned []
C16_Inert(s, g) ==
    /\ ~g.called
    /\ g.ret = PyList(<<>>)
    /\ g.dns = 0
    /\ g.fetch = 0
    /\ g.s = s

\* C16: between line 182 and line 185, that is with do_slurp False, a call
\* of _generate_slurp returns [] without a call of slurp, a DNS lookup, a
\* fetch or a change of a cache, whatever the caches hold and whatever the
\* network would answer; and so does every call that finds do_slurp False.
C16_NestedCallInert ==
    /\ (setup_done /\ Len(slurp_wordstream) # 0) =>
           \A e \in Envs : C16_Inert(Entered(State), _generate_slurp(Entered(State), e))
    /\ (last.op \in RetrievalOps /\ last.pre.do_slurp = "False") =>
           /\ ~last.g.called
           /\ last.g.dns = 0
           /\ last.g.fetch = 0
           /\ CachesUnchanged
           /\ disk = last.pre.disk

\* a learn or unlearn that found a URL pending and do_slurp False
C16_Witness ==
    /\ last.op \in {"learn", "unlearn"}
    /\ last.pre.do_slurp = "False"
    /\ Len(last.pre.slurp_wordstream) # 0
    /\ ~last.g.called
    /\ last.passed.ty = "list"

\* C17: when a spamprob, learn or unlearn that called slurp is over, what
\* setup would read from the pickles is what bad_urls and http_error_urls
\* hold in memory, and the pickles exist when slurp returned.
C17_CachesFlushed ==
    (last.op \in RetrievalOps /\ last.g.called) =>
        /\ setup(State).c.bad_urls = bad_urls
        /\ setup(State).c.http_error_urls = http_error_urls
        /\ last.g.ret.ty # "raise" => disk.exists

\* a call whose slurp put a status token in http_error_urls, on disk after it
C17_Witness ==
    /\ last.op \in RetrievalOps
    /\ last.g.called
    /\ last.g.answer = "error"
    /\ last.g.url \in DOMAIN http_error_urls
    /\ disk.exists
    /\ last.g.url \notin DOMAIN last.pre.disk.http_error_urls
    /\ last.g.url \in DOMAIN disk.http_error_urls

\* the tokens a retrieval returned: the items of a list, and the one token
\* a returned string is
C18_Tokens(ret) == IF ret.ty = "str" THEN <<ret.items>> ELSE ret.items

\* C18: spamprob scores the wordstream with evidence, then either reports
\* (one score) or, when ShouldSlurp holds of the first score, retrieves and
\* scores a second time, with evidence, the tokens of the retrieval followed
\* by the words of the first evidence, and then reports: every call ends
\* with a result after one score or after exactly two.
C18_StateMachine ==
    last.op = "spamprob" =>
        /\ last.result.ty = "ok"
        /\ \A i \in 1..Len(last.scores) : last.scores[i].evidence
        /\ last.scores[1].input = last.wordstream
        /\ IF ShouldSlurp(last.scores[1].score.prob, last.scores[1].score.clues,
                          last.pre.slurp_wordstream)
           THEN /\ Len(last.scores) = 2
                /\ last.scores[2].input =
                       C18_Tokens(last.g.ret) \o ClueWords(last.scores[1].score.clues)
           ELSE Len(last.scores) = 1

\* C19: the document a slurp finds in the corpus under the key of its URL
\* was stored by a fetch of that URL.
C19_HitServesSameUrl ==
    CorpusHit => last.pre.c.urlCorpus[URL_KEY(last.g.url)].origin = last.g.url

\* the learn before the last call resolved the pending URL to a result that
\* a cache tier held when the last call began
C20_LearnRecorded ==
    /\ last.prev.op = "learn"
    /\ last.prev.g.called
    /\ \/ Recorded(last.pre.c, last.prev.g.url)
       \/ URL_KEY(last.prev.g.url) \in DOMAIN last.pre.c.urlCorpus

\* C20: an unlearn that follows such a learn, with the same wordstream and
\* the same URL pending, gives _remove_msg the token sequence that learn
\* gave _add_msg.
C20_UnlearnUndoesLearn ==
    ( /\ last.op = "unlearn"
      /\ C20_LearnRecorded
      /\ last.wordstream = last.prev.wordstream
      /\ last.pre.slurp_wordstream = last.prev.slurp_wordstream ) =>
        /\ last.passed.ty = "list"
        /\ last.passed = last.prev.passed

====
